---------------------------- MODULE Spec2Model ----------------------------
(***************************************************************************)
(* A model of the ndef crate: the NDEF record codec (record.rs), the NDEF  *)
(* message codec (message.rs), the Type-2 tag TLV layout (tag.rs) and the  *)
(* URI payload (payload.rs, consts.rs).                                    *)
(*                                                                         *)
(* Bytes are integers 0..255, byte vectors are sequences, RecordFlags is   *)
(* the integer holding its bits, Option<Vec<u8>> is a record               *)
(* [some, v] and a Result is a record with an ok field.                    *)
(*                                                                         *)
(* The specifications share the definitions of the codec:                  *)
(*   SpecRecord  one record: builder calls, build, NdefRecord::to_buffer,  *)
(*               NdefRecord::decode                                        *)
(*   Spec        one message: add_record, NdefMessage::to_buffer,          *)
(*               NdefMessage::decode, re-encoding of a decoded message     *)
(*   SpecTag     one tag: TagBuilder calls, NFT2Tag::to_bytes              *)
(*   SpecUri     one URI string: UriPayload::from_string, full_uri         *)
(*   SpecLoop    NdefMessage::decode one loop iteration at a time, with    *)
(*               the fairness of a running loop                            *)
(***************************************************************************)
EXTENDS Integers, Sequences, FiniteSets, TLC

VARIABLES
    \* ---- SpecRecord
    builder,    \* the NdefRecordBuilder being configured
    pcalls,     \* number of payload() calls made on it (history)
    rstage,     \* "building" | "failed" | "built" | "encoded" | "received"
                \* | "decoded" | "converted"
    rec,        \* the NdefRecord build() returned, or the fields a peer sent
    rerr,       \* the error build() returned ("" if none)
    rchain,     \* the chain flags given to NdefRecord::to_buffer
    rwire,      \* the bytes to_buffer returned, or the bytes received
    rflag,      \* flag byte of a received record (-1: rwire was encoded)
    rdec,       \* the result of NdefRecord::decode on rwire
    ures,       \* the result of UriPayload::try_from on rec
    \* ---- Spec
    msg,        \* NdefMessage.records
    mstage,     \* "compose" | "encoded" | "receiving" | "cut" | "decoding"
                \* | "decoded"
    wire,       \* the bytes NdefMessage::to_buffer returned, or received
    dec,        \* the result of NdefMessage::decode on wire
    origin,     \* where wire came from: "none" | "to_buffer" | "peer"
    nframes,    \* records received from the peer so far
    \* ---- SpecTag
    overflow_checks, \* build profile: arithmetic overflow panics (debug)
    tag,        \* the TagBuilder being configured
    requested,  \* capacity in bytes asked for by the last size call (history)
    sized,      \* last size call: "none" | "size_in_bytes" | "size_in_8bytes"
    tstage,     \* "building" | "panicked" | "done"
    tlvout,     \* TlvValue::to_bytes of each entry, in order
    tres,       \* the result of NFT2Tag::to_bytes
    \* ---- SpecUri
    uri,        \* the URI string given to UriPayload::from_string
    ustage,     \* "input" | "guessed" | "joined"
    guessed,    \* the UriPayload from_string returned: abbrev and uri
    joined,     \* what full_uri() returned for it
    \* ---- SpecLoop
    dpos,       \* reader.position() in NdefMessage::decode
    drecs       \* the `records` vector of NdefMessage::decode

recVars ==
    <<builder, pcalls, rstage, rec, rerr, rchain, rwire, rflag, rdec, ures>>
msgVars == <<msg, mstage, wire, dec, origin, nframes>>
tagVars == <<overflow_checks, tag, requested, sized, tstage, tlvout, tres>>
uriVars == <<uri, ustage, guessed, joined>>
loopVars == <<dpos, drecs>>
vars == <<recVars, msgVars, tagVars, uriVars, loopVars>>

-----------------------------------------------------------------------------
(* Bounds of the model *)

\* payload() calls on one builder
MaxPayloadCalls == 2
\* records in one message
MaxRecords == 3
\* records in one received byte stream
MaxFrames == 3
\* TLV entries in one tag
MaxTlvs == 2

-----------------------------------------------------------------------------
(* consts.rs: RecordFlags bits, TNF values, RTD *)

MB == 128
ME == 64
CF == 32
SR == 16
IL == 8

TNF_Empty == 0
TNF_WellKnown == 1
TNF_MimeMedia == 2
TNF_AbsoluteUri == 3
TNF_External == 4
TNF_Unknown == 5
TNF_Unchanged == 6
TNF_Reserved == 7

TNF == {TNF_Empty, TNF_WellKnown, TNF_MimeMedia, TNF_AbsoluteUri,
        TNF_External, TNF_Unknown, TNF_Unchanged, TNF_Reserved}

RTD_TEXT == <<84>>
RTD_URI == <<85>>

\* u8 & u8
RECURSIVE BitAnd(_, _)
BitAnd(a, b) ==
    IF a = 0 \/ b = 0 THEN 0
    ELSE (IF a % 2 = 1 /\ b % 2 = 1 THEN 1 ELSE 0)
         + 2 * BitAnd(a \div 2, b \div 2)

\* u8 | u8
RECURSIVE BitOr(_, _)
BitOr(a, b) ==
    IF a = 0 THEN b
    ELSE IF b = 0 THEN a
    ELSE (IF a % 2 = 1 \/ b % 2 = 1 THEN 1 ELSE 0)
         + 2 * BitOr(a \div 2, b \div 2)

\* flags & !bit, on one byte
BitClear(a, b) == a - BitAnd(a, b)

\* flags & F == F
Contains(flags, f) == BitAnd(flags, f) = f

\* strum FromRepr: Some(variant) exactly for the eight declared values
TNF_from_repr(repr) ==
    IF repr \in TNF THEN [some |-> TRUE, v |-> repr]
    ELSE [some |-> FALSE, v |-> 0]

None == [some |-> FALSE, v |-> <<>>]
Some(bytes) == [some |-> TRUE, v |-> bytes]

\* x as u8, x as u16
AsU8(x) == x % 256
AsU16(x) == x % 65536

\* byteorder LittleEndian write_u16 / write_u32 / read_u32; LE32 writes the
\* low 32 bits of x, which is x as u32
LE16(x) == <<x % 256, (x \div 256) % 256>>
LE32(x) == <<x % 256, (x \div 256) % 256, (x \div 65536) % 256,
             (x \div 16777216) % 256>>
FromLE32(b) == b[1] + 256 * b[2] + 65536 * b[3] + 16777216 * b[4]

\* a byte vector of n bytes whose content depends on the position
Bytes(seed, n) == [i \in 1..n |-> (seed + i) % 256]


-----------------------------------------------------------------------------
(* record.rs: NdefRecordBuilder *)

NdefRecordBuilder_new ==
    [flags |-> 0, tnf |-> TNF_Empty, record_type |-> <<>>, id |-> None,
     payload |-> <<>>]

\* id() without the early return for an empty vector
Builder_id_accepts_empty(self, id) ==
    [self EXCEPT !.id = Some(id), !.flags = BitOr(@, IL)]

Builder_id(self, id) ==
    IF Len(id) = 0 THEN self
    ELSE [self EXCEPT !.id = Some(id), !.flags = BitOr(@, IL)]

Builder_tnf(self, tnf) == [self EXCEPT !.tnf = tnf]

\* payload() with the short-record boundary one byte too high
Builder_payload_le(self, record_type, payload) ==
    LET s == [self EXCEPT !.payload = payload, !.record_type = record_type]
    IN  IF Len(s.payload) <= 256 THEN [s EXCEPT !.flags = BitOr(@, SR)] ELSE s

Builder_payload(self, record_type, payload) ==
    LET s == [self EXCEPT !.payload = payload, !.record_type = record_type]
    IN  IF Len(s.payload) < 256 THEN [s EXCEPT !.flags = BitOr(@, SR)] ELSE s

NoRecord == [flags |-> 0, tnf |-> TNF_Empty, record_type |-> <<>>,
             id |-> None, payload |-> <<>>]

\* build() whose Empty-TNF validation does not look at the ID
Builder_build_id_unchecked(self) ==
    IF /\ self.tnf = TNF_Empty
       /\ (Len(self.payload) # 0 \/ Len(self.record_type) # 0)
    THEN [ok |-> FALSE, err |-> "Invalid empty record", rec |-> NoRecord]
    ELSE IF self.tnf = TNF_Empty
    THEN [ok |-> TRUE, err |-> "",
          rec |-> [flags |-> self.flags, tnf |-> self.tnf,
                   record_type |-> <<>>, id |-> None, payload |-> <<>>]]
    ELSE [ok |-> TRUE, err |-> "", rec |-> self]

\* Result<NdefRecord>: Ok(rec) or Err(err)
Builder_build(self) ==
    IF /\ self.tnf = TNF_Empty
       /\ (Len(self.payload) # 0 \/ Len(self.record_type) # 0 \/ self.id.some)
    THEN [ok |-> FALSE, err |-> "Invalid empty record", rec |-> NoRecord]
    ELSE IF self.tnf = TNF_Empty
    THEN [ok |-> TRUE, err |-> "",
          rec |-> [flags |-> self.flags, tnf |-> self.tnf,
                   record_type |-> <<>>, id |-> None, payload |-> <<>>]]
    ELSE [ok |-> TRUE, err |-> "", rec |-> self]

-----------------------------------------------------------------------------
(* record.rs: NdefRecord::to_buffer and NdefRecord::decode *)

\* the MB and ME bits of the stored flags replaced by those of `flag`
ChainBits(flags, flag) ==
    LET rf1 == IF Contains(flag, MB) THEN BitOr(flags, MB)
               ELSE BitClear(flags, MB)
    IN  IF Contains(flag, ME) THEN BitOr(rf1, ME) ELSE BitClear(rf1, ME)

\* to_buffer writing the ID before the record type
Record_to_buffer_id_first(self, flag) ==
    LET rf == ChainBits(self.flags, flag)
        b0 == BitOr(rf, BitAnd(self.tnf, 7))
        plen == IF Contains(self.flags, SR)
                THEN <<AsU8(Len(self.payload))>>
                ELSE LE32(Len(self.payload))
        idlen == IF self.id.some THEN <<AsU8(BitAnd(Len(self.id.v), 255))>>
                 ELSE <<>>
        idbytes == IF self.id.some THEN self.id.v ELSE <<>>
    IN  <<b0, AsU8(Len(self.record_type))>> \o plen \o idlen
        \o idbytes \o self.record_type \o self.payload

\* the bytes of Ok(..): no write to the Vec-backed cursor can fail
Record_to_buffer(self, flag) ==
    LET rf == ChainBits(self.flags, flag)
        b0 == BitOr(rf, BitAnd(self.tnf, 7))
        plen == IF Contains(self.flags, SR)
                THEN <<AsU8(Len(self.payload))>>
                ELSE LE32(Len(self.payload))
        idlen == IF self.id.some THEN <<AsU8(BitAnd(Len(self.id.v), 255))>>
                 ELSE <<>>
        idbytes == IF self.id.some THEN self.id.v ELSE <<>>
    IN  <<b0, AsU8(Len(self.record_type))>> \o plen \o idlen
        \o self.record_type \o idbytes \o self.payload

DecodeErr(e, pos) == [ok |-> FALSE, err |-> e, rec |-> NoRecord, pos |-> pos]

\* read_exact of n bytes at cursor position pos succeeds
CanRead(data, pos, n) == pos + n <= Len(data)

\* the n bytes after cursor position pos
Take(data, pos, n) == SubSeq(data, pos + 1, pos + n)

\* NdefRecord::decode reading from cursor position pos (0-based) of data:
\* the record and the position after it, or the error
Record_decode(data, pos) ==
    IF ~CanRead(data, pos, 1) THEN DecodeErr("read error", pos)
    ELSE
    LET b0 == data[pos + 1]
        tnf == TNF_from_repr(BitAnd(b0, 15))
    IN
    IF ~tnf.some THEN DecodeErr("unknown tnf", pos)
    ELSE IF ~CanRead(data, pos + 1, 1)
    THEN DecodeErr("read type length error", pos)
    ELSE
    LET flags == b0
        type_len == data[pos + 2]
        sr == Contains(flags, SR)
        plw == IF sr THEN 1 ELSE 4
    IN
    IF ~CanRead(data, pos + 2, plw)
    THEN DecodeErr("read payload length error", pos)
    ELSE
    LET payload_len == IF sr THEN data[pos + 3]
                       ELSE FromLE32(Take(data, pos + 2, 4))
        p1 == pos + 2 + plw
        il == Contains(flags, IL)
    IN
    IF il /\ ~CanRead(data, p1, 1) THEN DecodeErr("read id length error", pos)
    ELSE
    LET id_len == IF il THEN data[p1 + 1] ELSE 0
        p2 == IF il THEN p1 + 1 ELSE p1
    IN
    IF ~CanRead(data, p2, type_len)
    THEN DecodeErr("read record type error", pos)
    ELSE
    LET p3 == p2 + type_len IN
    IF id_len > 0 /\ ~CanRead(data, p3, id_len)
    THEN DecodeErr("read record id error", pos)
    ELSE
    LET p4 == p3 + id_len IN
    IF ~CanRead(data, p4, payload_len) THEN DecodeErr("read payload error", pos)
    ELSE [ok |-> TRUE, err |-> "",
          rec |-> [flags |-> flags, tnf |-> tnf.v,
                   record_type |-> Take(data, p2, type_len),
                   id |-> IF id_len > 0 THEN Some(Take(data, p3, id_len))
                          ELSE None,
                   payload |-> Take(data, p4, payload_len)],
          pos |-> p4 + payload_len]


-----------------------------------------------------------------------------
(* consts.rs: URI_ABBREVIATIONS; payload.rs: UriPayload *)

NONE_ABBRE == [code |-> 0, prefix |-> ""]

\* UriAbbrev(code, prefix), in declared order
URI_ABBREVIATIONS == <<
    NONE_ABBRE,
    [code |-> 1, prefix |-> "http://www."],
    [code |-> 2, prefix |-> "https://www."],
    [code |-> 3, prefix |-> "http://"],
    [code |-> 4, prefix |-> "https://"],
    [code |-> 5, prefix |-> "tel:"],
    [code |-> 6, prefix |-> "mailto:"],
    [code |-> 7, prefix |-> "ftp://anonymous:anonymous@"],
    [code |-> 8, prefix |-> "ftp://ftp."],
    [code |-> 9, prefix |-> "ftps://"],
    [code |-> 10, prefix |-> "sftp://"],
    [code |-> 11, prefix |-> "smb://"],
    [code |-> 12, prefix |-> "nfs://"],
    [code |-> 13, prefix |-> "ftp://"],
    [code |-> 14, prefix |-> "dav://"],
    [code |-> 15, prefix |-> "news:"],
    [code |-> 16, prefix |-> "telnet://"],
    [code |-> 17, prefix |-> "imap:"],
    [code |-> 18, prefix |-> "rtsp://"],
    [code |-> 19, prefix |-> "urn:"],
    [code |-> 20, prefix |-> "pop:"],
    [code |-> 21, prefix |-> "sip:"],
    [code |-> 22, prefix |-> "sips:"],
    [code |-> 23, prefix |-> "tftp:"],
    [code |-> 24, prefix |-> "btspp://"],
    [code |-> 25, prefix |-> "btl2cap://"],
    [code |-> 26, prefix |-> "btgoep://"],
    [code |-> 27, prefix |-> "tcpobex://"],
    [code |-> 28, prefix |-> "irdaobex://"],
    [code |-> 29, prefix |-> "file://"],
    [code |-> 30, prefix |-> "urn:epc:id:"],
    [code |-> 31, prefix |-> "urn:epc:tag:"],
    [code |-> 32, prefix |-> "urn:epc:pat:"],
    [code |-> 33, prefix |-> "urn:epc:raw:"],
    [code |-> 34, prefix |-> "urn:epc:"],
    [code |-> 35, prefix |-> "urn:nfc:"] >>

NoUriPayload == [abbrev |-> NONE_ABBRE, uri |-> ""]

NoUriResult == [panic |-> FALSE, ok |-> FALSE, err |-> "not run",
                abbrev |-> NONE_ABBRE, uri |-> <<>>]

\* str::starts_with
starts_with(s, prefix) ==
    Len(prefix) <= Len(s) /\ SubSeq(s, 1, Len(prefix)) = prefix

\* &s[n..]
StrFrom(s, n) == SubSeq(s, n + 1, Len(s))

\* the loop of guess_abbrev from the entry at 1-based position i on;
\* UriAbbrev equality compares the codes
RECURSIVE GuessFrom(_, _)
GuessFrom(u, i) ==
    IF i > Len(URI_ABBREVIATIONS) THEN [abbrev |-> NONE_ABBRE, uri |-> u]
    ELSE LET abbr == URI_ABBREVIATIONS[i] IN
         IF abbr.code = NONE_ABBRE.code THEN GuessFrom(u, i + 1)
         ELSE IF starts_with(u, abbr.prefix)
         THEN [abbrev |-> abbr, uri |-> StrFrom(u, Len(abbr.prefix))]
         ELSE GuessFrom(u, i + 1)

UriPayload_guess_abbrev(u) == GuessFrom(u, 1)

\* UriPayload::from_string
UriPayload_from_string(u) == UriPayload_guess_abbrev(u)

\* UriPayload::full_uri
UriPayload_full_uri(self) ==
    IF self.abbrev.code = NONE_ABBRE.code THEN self.uri
    ELSE self.abbrev.prefix \o self.uri

\* get_uri_abbreviation: the first entry with this code, if any
get_uri_abbreviation(abbreviation) ==
    LET found == {i \in 1..Len(URI_ABBREVIATIONS) :
                     URI_ABBREVIATIONS[i].code = abbreviation}
    IN  IF found = {} THEN [some |-> FALSE, v |-> NONE_ABBRE]
        ELSE [some |-> TRUE,
              v |-> URI_ABBREVIATIONS[CHOOSE i \in found :
                                         \A j \in found : i <= j]]

\* a UTF-8 continuation byte
Cont(b) == 128 <= b /\ b <= 191

\* std::str::from_utf8(bytes).is_ok(), from the byte at 1-based position i
\* on: well-formed UTF-8 only (no overlong form, no surrogate, at most
\* U+10FFFF)
RECURSIVE Utf8From(_, _)
Utf8From(b, i) ==
    IF i > Len(b) THEN TRUE
    ELSE LET c == b[i]
             has(k) == i + k <= Len(b)
         IN
         IF c <= 127 THEN Utf8From(b, i + 1)
         ELSE IF 194 <= c /\ c <= 223
         THEN has(1) /\ Cont(b[i + 1]) /\ Utf8From(b, i + 2)
         ELSE IF 224 <= c /\ c <= 239
         THEN /\ has(2)
              /\ Cont(b[i + 1])
              /\ c = 224 => b[i + 1] >= 160
              /\ c = 237 => b[i + 1] <= 159
              /\ Cont(b[i + 2])
              /\ Utf8From(b, i + 3)
         ELSE IF 240 <= c /\ c <= 244
         THEN /\ has(3)
              /\ Cont(b[i + 1])
              /\ c = 240 => b[i + 1] >= 144
              /\ c = 244 => b[i + 1] <= 143
              /\ Cont(b[i + 2])
              /\ Cont(b[i + 3])
              /\ Utf8From(b, i + 4)
         ELSE FALSE

from_utf8_ok(bytes) == Utf8From(bytes, 1)

UriErr(e) == [panic |-> FALSE, ok |-> FALSE, err |-> e,
              abbrev |-> NONE_ABBRE, uri |-> <<>>]

\* index out of bounds: the thread panics, nothing is returned
UriPanic == [panic |-> TRUE, ok |-> FALSE, err |-> "",
             abbrev |-> NONE_ABBRE, uri |-> <<>>]

\* impl TryFrom<&NdefRecord> for UriPayload; uri holds the bytes of the String
UriPayload_try_from(record) ==
    IF record.tnf # TNF_WellKnown THEN UriErr("InvalidTnf")
    ELSE IF record.record_type # RTD_URI THEN UriErr("InvalidRecordType")
    ELSE LET payload == record.payload IN
         IF Len(payload) = 0 THEN UriPanic
         ELSE LET found == get_uri_abbreviation(payload[1])
                  abbrev == IF found.some THEN found.v ELSE NONE_ABBRE
              IN  IF ~from_utf8_ok(Tail(payload)) THEN UriErr("InvalidEncoding")
                  ELSE [panic |-> FALSE, ok |-> TRUE, err |-> "",
                        abbrev |-> abbrev, uri |-> Tail(payload)]

-----------------------------------------------------------------------------
(* SpecRecord: one record through the builder, to_buffer and decode *)

\* arguments of the builder calls
IdInputs == {<<>>, Bytes(16, 1), Bytes(32, 255), Bytes(32, 256)}
TypeInputs == {<<>>, RTD_URI, Bytes(64, 255), Bytes(64, 256)}
PayloadInputs == {Bytes(128, n) : n \in {0, 1, 255, 256}}
                 \cup {<<4, 97, 195, 169>>}
ChainInputs == {0, MB, ME, MB + ME}

\* fields of a record received from a peer
RxTypes == {<<>>, RTD_TEXT}
RxIds == {<<>>, Bytes(16, 1), Bytes(32, 2)}
RxPayloads == {<<>>, Bytes(128, 2)}

\* The NDEF wire format of one record with flag byte b, as a peer sends it:
\* the payload length in 1 byte if b has SR, else 4 bytes little-endian;
\* the ID length and the ID present iff b has IL.
WireFrame(b, type, id, payload) ==
    <<b, Len(type)>>
    \o (IF Contains(b, SR) THEN <<Len(payload)>> ELSE LE32(Len(payload)))
    \o (IF Contains(b, IL) THEN <<Len(id)>> ELSE <<>>)
    \o type
    \o (IF Contains(b, IL) THEN id ELSE <<>>)
    \o payload

NoDecode == [ok |-> FALSE, err |-> "not decoded", rec |-> NoRecord, pos |-> 0]

NoMessageDecode == [ok |-> FALSE, err |-> "not decoded", records |-> <<>>]

NoTagBytes == [ok |-> FALSE, err |-> "not run", bytes |-> <<>>]


TagBuilder_new == [memory_size |-> 0, tlvs |-> <<>>]

InitRecord ==
    /\ builder = NdefRecordBuilder_new
    /\ pcalls = 0
    /\ rstage = "building"
    /\ rec = NoRecord
    /\ rerr = ""
    /\ rchain = 0
    /\ rwire = <<>>
    /\ rflag = -1
    /\ rdec = NoDecode
    /\ ures = NoUriResult
    /\ msg = <<>>
    /\ mstage = "compose"
    /\ wire = <<>>
    /\ dec = NoMessageDecode
    /\ origin = "none"
    /\ nframes = 0
    /\ overflow_checks = FALSE
    /\ tag = TagBuilder_new
    /\ requested = 0
    /\ sized = "none"
    /\ tstage = "building"
    /\ tlvout = <<>>
    /\ tres = NoTagBytes
    /\ uri = ""
    /\ ustage = "input"
    /\ guessed = NoUriPayload
    /\ joined = ""
    /\ dpos = 0
    /\ drecs = <<>>

\* NdefRecordBuilder::tnf
RBuilderTnf ==
    /\ rstage = "building"
    /\ \E t \in TNF : builder' = Builder_tnf(builder, t)
    /\ UNCHANGED <<pcalls, rstage, rec, rerr, rchain, rwire, rflag, rdec, ures>>
    /\ UNCHANGED <<msgVars, tagVars, uriVars, loopVars>>

\* NdefRecordBuilder::id
RBuilderId ==
    /\ rstage = "building"
    /\ \E id \in IdInputs : builder' = Builder_id(builder, id)
    /\ UNCHANGED <<pcalls, rstage, rec, rerr, rchain, rwire, rflag, rdec, ures>>
    /\ UNCHANGED <<msgVars, tagVars, uriVars, loopVars>>

\* NdefRecordBuilder::payload
RBuilderPayload ==
    /\ rstage = "building"
    /\ pcalls < MaxPayloadCalls
    /\ \E ty \in TypeInputs, pl \in PayloadInputs :
          builder' = Builder_payload(builder, ty, pl)
    /\ pcalls' = pcalls + 1
    /\ UNCHANGED <<rstage, rec, rerr, rchain, rwire, rflag, rdec, ures>>
    /\ UNCHANGED <<msgVars, tagVars, uriVars, loopVars>>

\* NdefRecordBuilder::build
RBuild ==
    /\ rstage = "building"
    /\ LET r == Builder_build(builder)
       IN  /\ rec' = r.rec
           /\ rerr' = r.err
           /\ rstage' = IF r.ok THEN "built" ELSE "failed"
    /\ UNCHANGED <<builder, pcalls, rchain, rwire, rflag, rdec, ures>>
    /\ UNCHANGED <<msgVars, tagVars, uriVars, loopVars>>

\* NdefRecord::to_buffer
RToBuffer ==
    /\ rstage = "built"
    /\ \E flag \in ChainInputs :
          /\ rchain' = flag
          /\ rwire' = Record_to_buffer(rec, flag)
    /\ rstage' = "encoded"
    /\ UNCHANGED <<builder, pcalls, rec, rerr, rflag, rdec, ures>>
    /\ UNCHANGED <<msgVars, tagVars, uriVars, loopVars>>

\* a record arrives from a peer, with any flag byte
RReceive ==
    /\ rstage = "building"
    /\ builder = NdefRecordBuilder_new
    /\ pcalls = 0
    /\ \E b \in 0..255, ty \in RxTypes, id \in RxIds, pl \in RxPayloads :
          /\ rflag' = b
          /\ rec' = [flags |-> b, tnf |-> b % 8, record_type |-> ty,
                     id |-> IF Contains(b, IL) /\ Len(id) > 0 THEN Some(id)
                            ELSE None,
                     payload |-> pl]
          /\ rwire' = WireFrame(b, ty, id, pl)
    /\ rstage' = "received"
    /\ UNCHANGED <<builder, pcalls, rerr, rchain, rdec, ures>>
    /\ UNCHANGED <<msgVars, tagVars, uriVars, loopVars>>

\* NdefRecord::decode on a cursor at the start of rwire
RDecode ==
    /\ rstage \in {"encoded", "received"}
    /\ rdec' = Record_decode(rwire, 0)
    /\ rstage' = "decoded"
    /\ UNCHANGED <<builder, pcalls, rec, rerr, rchain, rwire, rflag, ures>>
    /\ UNCHANGED <<msgVars, tagVars, uriVars, loopVars>>

\* UriPayload::try_from(&rec) on the record build() returned
RUriTryFrom ==
    /\ rstage = "built"
    /\ ures' = UriPayload_try_from(rec)
    /\ rstage' = "converted"
    /\ UNCHANGED <<builder, pcalls, rec, rerr, rchain, rwire, rflag, rdec>>
    /\ UNCHANGED <<msgVars, tagVars, uriVars, loopVars>>

NextRecord ==
    \/ RUriTryFrom
    \/ RBuilderTnf
    \/ RBuilderId
    \/ RBuilderPayload
    \/ RBuild
    \/ RToBuffer
    \/ RReceive
    \/ RDecode

SpecRecord == InitRecord /\ [][NextRecord]_vars

-----------------------------------------------------------------------------
(* message.rs: NdefMessage::to_buffer and NdefMessage::decode *)

\* the chain flags without the branch for the last record
ChainFlag_first_branch_only(index, len) ==
    IF len = 1 THEN ME + MB
    ELSE IF index = 0 /\ len > 1 THEN MB
    ELSE 0

\* the chain flags of the record at `index` (0-based) of `len` records
ChainFlag(index, len) ==
    IF len = 1 THEN BitOr(ME, MB)
    ELSE IF index = 0 /\ len > 1 THEN MB
    ELSE IF index = len - 1 THEN ME
    ELSE 0

\* the loop of to_buffer from the record at 1-based position i on
RECURSIVE ExtendFrom(_, _)
ExtendFrom(records, i) ==
    IF i > Len(records) THEN <<>>
    ELSE Record_to_buffer(records[i], ChainFlag(i - 1, Len(records)))
         \o ExtendFrom(records, i + 1)

\* the bytes of Ok(..): Record_to_buffer never fails
Message_to_buffer(records) == ExtendFrom(records, 1)

MessageErr(e) == [ok |-> FALSE, err |-> e, records |-> <<>>]

\* the MB check with records.len() > 1
BeginMisplaced_after_second(record, records) ==
    Contains(record.flags, MB) /\ Len(records) > 1

\* record.flags() & MB == MB && records.len() > 0
BeginMisplaced(record, records) ==
    Contains(record.flags, MB) /\ Len(records) > 0

\* the ME check left out
EndMissing_never(flags) == FALSE

\* flags & ME != ME
EndMissing(flags) == BitAnd(flags, ME) # ME

\* the exit test with > in place of >=
AtEnd_past(position, total) == position > total

\* reader.position() >= total
AtEnd(position, total) == position >= total

\* the loop of decode, with the cursor at pos and `records` decoded so far
RECURSIVE DecodeLoop(_, _, _)
DecodeLoop(data, pos, records) ==
    LET r == Record_decode(data, pos) IN
    IF ~r.ok THEN MessageErr(r.err)
    ELSE IF BeginMisplaced(r.rec, records)
    THEN MessageErr("record MB flag is set , but not first record")
    ELSE IF AtEnd(r.pos, Len(data))
    THEN IF EndMissing(r.rec.flags)
         THEN MessageErr("record ME flag is not set")
         ELSE [ok |-> TRUE, err |-> "", records |-> Append(records, r.rec)]
    ELSE DecodeLoop(data, r.pos, Append(records, r.rec))

\* decode as a loop that runs only while input remains
Message_decode_while_remaining(data) ==
    IF Len(data) = 0 THEN [ok |-> TRUE, err |-> "", records |-> <<>>]
    ELSE DecodeLoop(data, 0, <<>>)

\* `loop` runs its body at least once: the first NdefRecord::decode is
\* attempted whatever the length of the input
Message_decode(data) == DecodeLoop(data, 0, <<>>)

-----------------------------------------------------------------------------
(* Spec: one message composed, encoded, decoded and composed again, or a
   byte stream received from a peer and decoded *)

\* tnf(..).id(..).payload(..).build() on a new builder
Built(tnf, id, type, payload) ==
    Builder_build(Builder_payload(
        Builder_id(Builder_tnf(NdefRecordBuilder_new, tnf), id),
        type, payload))

\* arguments of the builder calls for the records of a message
RecordInputs ==
    { <<TNF_WellKnown, Bytes(16, 1), RTD_URI, Bytes(0, 1)>>,
      <<TNF_External, <<>>, RTD_TEXT, Bytes(128, 256)>>,
      <<TNF_MimeMedia, <<>>, <<>>, Bytes(128, 255)>>,
      <<TNF_Reserved, <<>>, Bytes(64, 255), <<>>>>,
      <<TNF_Empty, <<>>, <<>>, <<>>>> }

BuiltRecords == {Built(a[1], a[2], a[3], a[4]).rec : a \in RecordInputs}

\* flag bytes of the records of a received stream: every combination of MB
\* and ME on a short record, a long record and a short record with an ID
RxFlagBytes ==
    {c + l : c \in ChainInputs,
             l \in {SR + TNF_WellKnown, TNF_External, SR + IL + TNF_MimeMedia}}

Reverse(seq) == [i \in 1..Len(seq) |-> seq[Len(seq) + 1 - i]]

Init ==
    /\ builder = NdefRecordBuilder_new
    /\ pcalls = 0
    /\ rstage = "building"
    /\ rec = NoRecord
    /\ rerr = ""
    /\ rchain = 0
    /\ rwire = <<>>
    /\ rflag = -1
    /\ rdec = NoDecode
    /\ ures = NoUriResult
    /\ msg = <<>>
    /\ mstage = "compose"
    /\ wire = <<>>
    /\ dec = NoMessageDecode
    /\ origin = "none"
    /\ nframes = 0
    /\ overflow_checks = FALSE
    /\ tag = TagBuilder_new
    /\ requested = 0
    /\ sized = "none"
    /\ tstage = "building"
    /\ tlvout = <<>>
    /\ tres = NoTagBytes
    /\ uri = ""
    /\ ustage = "input"
    /\ guessed = NoUriPayload
    /\ joined = ""
    /\ dpos = 0
    /\ drecs = <<>>

\* NdefMessage::add_record of a record the builder returned
AddRecord ==
    /\ mstage = "compose"
    /\ Len(msg) < MaxRecords
    /\ \E a \in RecordInputs :
          LET r == Built(a[1], a[2], a[3], a[4])
          IN  /\ r.ok
              /\ msg' = Append(msg, r.rec)
    /\ UNCHANGED <<mstage, wire, dec, origin, nframes>>
    /\ UNCHANGED <<recVars, tagVars, uriVars, loopVars>>

\* NdefMessage::to_buffer
ToBuffer ==
    /\ mstage = "compose"
    /\ wire' = Message_to_buffer(msg)
    /\ origin' = "to_buffer"
    /\ mstage' = "encoded"
    /\ UNCHANGED <<msg, dec, nframes>>
    /\ UNCHANGED <<recVars, tagVars, uriVars, loopVars>>

\* one more record of a stream arrives from a peer
Receive ==
    /\ mstage \in {"compose", "receiving"}
    /\ msg = <<>>
    /\ nframes < MaxFrames
    /\ \E b \in RxFlagBytes :
          wire' = wire \o WireFrame(b, RTD_TEXT, Bytes(16, 1), Bytes(128, 2))
    /\ nframes' = nframes + 1
    /\ origin' = "peer"
    /\ mstage' = "receiving"
    /\ UNCHANGED <<msg, dec>>
    /\ UNCHANGED <<recVars, tagVars, uriVars, loopVars>>

\* the stream ends one byte early
Truncate ==
    /\ mstage = "receiving"
    /\ wire' = SubSeq(wire, 1, Len(wire) - 1)
    /\ mstage' = "cut"
    /\ UNCHANGED <<msg, dec, origin, nframes>>
    /\ UNCHANGED <<recVars, tagVars, uriVars, loopVars>>

\* NdefMessage::decode
Decode ==
    /\ mstage \in {"encoded", "receiving", "cut"}
    /\ dec' = Message_decode(wire)
    /\ mstage' = "decoded"
    /\ UNCHANGED <<msg, wire, origin, nframes>>
    /\ UNCHANGED <<recVars, tagVars, uriVars, loopVars>>

\* NdefMessage::from(records) with the records of the decoded message, in
\* their order or reversed
FromDecoded ==
    /\ mstage = "decoded"
    /\ dec.ok
    /\ Len(dec.records) <= MaxRecords
    /\ \E m \in {dec.records, Reverse(dec.records)} : msg' = m
    /\ mstage' = "compose"
    /\ wire' = <<>>
    /\ dec' = NoMessageDecode
    /\ origin' = "none"
    /\ nframes' = 0
    /\ UNCHANGED <<recVars, tagVars, uriVars, loopVars>>

Next ==
    \/ AddRecord
    \/ ToBuffer
    \/ Receive
    \/ Truncate
    \/ Decode
    \/ FromDecoded

Spec == Init /\ [][Next]_vars

-----------------------------------------------------------------------------
(* SpecLoop: NdefMessage::decode as the loop it is, one iteration a step *)

InitLoop ==
    /\ builder = NdefRecordBuilder_new
    /\ pcalls = 0
    /\ rstage = "building"
    /\ rec = NoRecord
    /\ rerr = ""
    /\ rchain = 0
    /\ rwire = <<>>
    /\ rflag = -1
    /\ rdec = NoDecode
    /\ ures = NoUriResult
    /\ msg = <<>>
    /\ mstage = "compose"
    /\ wire = <<>>
    /\ dec = NoMessageDecode
    /\ origin = "none"
    /\ nframes = 0
    /\ overflow_checks = FALSE
    /\ tag = TagBuilder_new
    /\ requested = 0
    /\ sized = "none"
    /\ tstage = "building"
    /\ tlvout = <<>>
    /\ tres = NoTagBytes
    /\ uri = ""
    /\ ustage = "input"
    /\ guessed = NoUriPayload
    /\ joined = ""
    /\ dpos = 0
    /\ drecs = <<>>

\* flag bytes of the records of a stream given to the loop: a short record
\* first, in the middle and last, a long record, and a record with an ID
LoopFlagBytes ==
    {MB + SR + TNF_WellKnown, SR + TNF_WellKnown, ME + SR + TNF_WellKnown,
     TNF_External, ME + SR + IL + TNF_MimeMedia}

\* one more record of a stream arrives from a peer
LoopReceive ==
    /\ mstage \in {"compose", "receiving"}
    /\ msg = <<>>
    /\ nframes < MaxFrames
    /\ \E b \in LoopFlagBytes :
          wire' = wire \o WireFrame(b, RTD_TEXT, Bytes(16, 1), Bytes(128, 2))
    /\ nframes' = nframes + 1
    /\ origin' = "peer"
    /\ mstage' = "receiving"
    /\ UNCHANGED <<msg, dec>>
    /\ UNCHANGED <<recVars, tagVars, uriVars, loopVars>>

\* NdefMessage::decode is called: total, the reader at position 0 and the
\* empty records vector
DecodeBegin ==
    /\ mstage \in {"encoded", "receiving", "cut"}
    /\ mstage' = "decoding"
    /\ dpos' = 0
    /\ drecs' = <<>>
    /\ UNCHANGED <<msg, wire, dec, origin, nframes>>
    /\ UNCHANGED <<recVars, tagVars, uriVars>>

\* one iteration of the loop of NdefMessage::decode
DecodeIteration ==
    /\ mstage = "decoding"
    /\ LET r == Record_decode(wire, dpos) IN
       IF ~r.ok
       THEN /\ dec' = MessageErr(r.err)
            /\ mstage' = "decoded"
            /\ UNCHANGED <<dpos, drecs>>
       ELSE IF BeginMisplaced(r.rec, drecs)
       THEN /\ dec' = MessageErr("record MB flag is set , but not first record")
            /\ mstage' = "decoded"
            /\ dpos' = r.pos
            /\ UNCHANGED drecs
       ELSE /\ dpos' = r.pos
            /\ drecs' = Append(drecs, r.rec)
            /\ IF AtEnd(r.pos, Len(wire))
               THEN /\ mstage' = "decoded"
                    /\ dec' = IF EndMissing(r.rec.flags)
                              THEN MessageErr("record ME flag is not set")
                              ELSE [ok |-> TRUE, err |-> "",
                                    records |-> Append(drecs, r.rec)]
               ELSE UNCHANGED <<mstage, dec>>
    /\ UNCHANGED <<msg, wire, origin, nframes>>
    /\ UNCHANGED <<recVars, tagVars, uriVars>>

NextLoop ==
    \/ AddRecord
    \/ ToBuffer
    \/ LoopReceive
    \/ Truncate
    \/ DecodeBegin
    \/ DecodeIteration

\* a call that has started keeps running: the loop is sequential code
SpecLoop == InitLoop /\ [][NextLoop]_vars /\ WF_vars(DecodeIteration)

-----------------------------------------------------------------------------
(* tag.rs: TlvValue, NFT2Tag, TagBuilder *)

TlvTag_NULL == 0
TlvTag_LockControl == 1
TlvTag_MemoryControl == 2
TlvTag_NDEFMessage == 3
TlvTag_Proprietary == 253
TlvTag_Terminator == 254

TlvValue_terminator == [tag |-> TlvTag_Terminator, value |-> None]
TlvValue_null == [tag |-> TlvTag_NULL, value |-> None]
TlvValue_lock_control(value) == [tag |-> TlvTag_LockControl, value |-> Some(value)]
TlvValue_memory_control(value) ==
    [tag |-> TlvTag_MemoryControl, value |-> Some(value)]
TlvValue_message(value) ==
    [tag |-> TlvTag_NDEFMessage,
     value |-> IF Len(value) = 0 THEN Some(<<>>) ELSE Some(value)]

\* std::io::Cursor<Vec<u8>>: a write at the position overwrites what is
\* there, extends the vector past its end, and advances the position
CursorWrite(c, bytes) ==
    [buf |-> SubSeq(c.buf, 1, c.pos) \o bytes
             \o SubSeq(c.buf, c.pos + Len(bytes) + 1, Len(c.buf)),
     pos |-> c.pos + Len(bytes)]

\* a cursor that appends to the vector it is given
Cursor_new_at_end(buffer) == [buf |-> buffer, pos |-> Len(buffer)]

\* Cursor::new: the position starts at 0
Cursor_new(buffer) == [buf |-> buffer, pos |-> 0]

TlvValue_to_bytes(self) ==
    LET writer == Cursor_new(<<self.tag>>)
        w1 == CursorWrite(writer, <<self.tag>>)
        w2 == IF ~self.value.some THEN w1
              ELSE LET value == self.value.v IN
                   IF Len(value) = 0 THEN CursorWrite(w1, <<0>>)
                   ELSE IF Len(value) < 255
                   THEN CursorWrite(CursorWrite(w1, <<AsU8(Len(value))>>), value)
                   ELSE CursorWrite(
                            CursorWrite(CursorWrite(w1, <<255>>),
                                        LE16(AsU16(Len(value)))),
                            value)
    IN  w2.buf

\* tlvs.iter().map(|v| v.to_bytes()).flatten().collect()
RECURSIVE Flatten(_)
Flatten(chunks) ==
    IF chunks = <<>> THEN <<>> ELSE Head(chunks) \o Flatten(Tail(chunks))

NfcHeader == 225
NfcVersion == 16
DefaultAccess == 15
CapacityCeiling == 2048

\* TagBuilder::build: the capability container and the entries
TagBuilder_build(self) ==
    [cc |-> <<NfcHeader, NfcVersion, self.memory_size, DefaultAccess>>,
     tlvs |-> self.tlvs]

\* cc[2] as u16 * 8
capacity_in_bytes(self) == AsU16(self.cc[3] * 8)

TlvBytes(self) == [i \in 1..Len(self.tlvs) |-> TlvValue_to_bytes(self.tlvs[i])]

TagErr(e) == [ok |-> FALSE, err |-> e, bytes |-> <<>>]

NFT2Tag_to_bytes(self) ==
    IF capacity_in_bytes(self) > CapacityCeiling
    THEN TagErr("Invalid memory size")
    ELSE LET buffer == Flatten(TlvBytes(self)) IN
         IF capacity_in_bytes(self) < AsU16(Len(buffer))
         THEN TagErr("Invalid memory size")
         ELSE [ok |-> TRUE, err |-> "", bytes |-> self.cc \o buffer]

\* TagBuilder::size_in_bytes on a u16: memory_size, or a panic where the
\* build checks arithmetic overflow and `num_of_bytes - 1` or `n as u8 + 1`
\* overflows; without the checks both wrap
TagBuilder_size_in_bytes(num_of_bytes, checked) ==
    LET under == num_of_bytes = 0
        n == AsU16(num_of_bytes + 65536 - 1) \div 8
        over == AsU8(n) = 255
    IN  [panic |-> checked /\ (under \/ over),
         memory_size |-> AsU8(AsU8(n) + 1)]

-----------------------------------------------------------------------------
(* SpecTag: one tag through the TagBuilder and NFT2Tag::to_bytes *)

\* arguments of size_in_bytes and size_in_8bytes
SizeByteInputs == {0, 1, 8, 9, 16, 48, 256, 2040, 2041, 2048, 2049, 4096}
SizeUnitInputs == {0, 1, 2, 255}

\* 2^16, the smallest length a u16 does not hold
JumboLen == 256 * 256

\* the entries added to a tag
TlvInputs ==
    {TlvValue_terminator, TlvValue_null,
     TlvValue_lock_control(Bytes(0, 3)), TlvValue_memory_control(Bytes(8, 3))}
    \cup {TlvValue_message(Bytes(32, n)) : n \in {0, 1, 254, 255}}

InitTag ==
    /\ builder = NdefRecordBuilder_new
    /\ pcalls = 0
    /\ rstage = "building"
    /\ rec = NoRecord
    /\ rerr = ""
    /\ rchain = 0
    /\ rwire = <<>>
    /\ rflag = -1
    /\ rdec = NoDecode
    /\ ures = NoUriResult
    /\ msg = <<>>
    /\ mstage = "compose"
    /\ wire = <<>>
    /\ dec = NoMessageDecode
    /\ origin = "none"
    /\ nframes = 0
    /\ overflow_checks \in BOOLEAN
    /\ tag = TagBuilder_new
    /\ requested = 0
    /\ sized = "none"
    /\ tstage = "building"
    /\ tlvout = <<>>
    /\ tres = NoTagBytes
    /\ uri = ""
    /\ ustage = "input"
    /\ guessed = NoUriPayload
    /\ joined = ""
    /\ dpos = 0
    /\ drecs = <<>>

\* TagBuilder::size_in_bytes
SizeInBytes ==
    /\ tstage = "building"
    /\ \E n \in SizeByteInputs :
          LET r == TagBuilder_size_in_bytes(n, overflow_checks)
          IN  /\ requested' = n
              /\ sized' = "size_in_bytes"
              /\ IF r.panic
                 THEN tstage' = "panicked" /\ tag' = tag
                 ELSE tstage' = tstage
                      /\ tag' = [tag EXCEPT !.memory_size = r.memory_size]
    /\ UNCHANGED <<overflow_checks, tlvout, tres>>
    /\ UNCHANGED <<recVars, msgVars, uriVars, loopVars>>

\* TagBuilder::size_in_8bytes
SizeIn8Bytes ==
    /\ tstage = "building"
    /\ \E u \in SizeUnitInputs :
          /\ tag' = [tag EXCEPT !.memory_size = u]
          /\ requested' = 8 * u
          /\ sized' = "size_in_8bytes"
    /\ UNCHANGED <<overflow_checks, tstage, tlvout, tres>>
    /\ UNCHANGED <<recVars, msgVars, uriVars, loopVars>>

\* TagBuilder::add_tlv (an NDEF message of JumboLen bytes stays the only
\* entry of its tag)
AddTlv ==
    /\ tstage = "building"
    /\ Len(tag.tlvs) < MaxTlvs
    /\ \A i \in 1..Len(tag.tlvs) : Len(tag.tlvs[i].value.v) < JumboLen
    /\ \E v \in TlvInputs : tag' = [tag EXCEPT !.tlvs = Append(@, v)]
    /\ UNCHANGED <<overflow_checks, requested, sized, tstage, tlvout, tres>>
    /\ UNCHANGED <<recVars, msgVars, uriVars, loopVars>>

\* TagBuilder::add_tlv of an NDEF message too long for a 16-bit length, as
\* the only entry
AddJumboTlv ==
    /\ tstage = "building"
    /\ tag.tlvs = <<>>
    /\ tag' = [tag EXCEPT !.tlvs = <<TlvValue_message(Bytes(32, JumboLen))>>]
    /\ UNCHANGED <<overflow_checks, requested, sized, tstage, tlvout, tres>>
    /\ UNCHANGED <<recVars, msgVars, uriVars, loopVars>>

\* TagBuilder::build, then NFT2Tag::to_bytes
ToBytes ==
    /\ tstage = "building"
    /\ LET t == TagBuilder_build(tag)
       IN  /\ tlvout' = TlvBytes(t)
           /\ tres' = NFT2Tag_to_bytes(t)
    /\ tstage' = "done"
    /\ UNCHANGED <<overflow_checks, tag, requested, sized>>
    /\ UNCHANGED <<recVars, msgVars, uriVars, loopVars>>

NextTag ==
    \/ SizeInBytes
    \/ SizeIn8Bytes
    \/ AddTlv
    \/ AddJumboTlv
    \/ ToBytes

SpecTag == InitTag /\ [][NextTag]_vars

-----------------------------------------------------------------------------
(* SpecUri: one URI string through UriPayload::from_string and full_uri *)

\* the URI strings: every prefix of the table and some that are in no entry,
\* followed by nothing or by the rest of a URI
UriHeads ==
    {URI_ABBREVIATIONS[i].prefix : i \in 1..Len(URI_ABBREVIATIONS)}
    \cup {"weixin://dl/", "urn", "HTTP://", "ttp://"}
UriTails == {"", "a.b/c", "www.x"}
UriInputs == {h \o t : h \in UriHeads, t \in UriTails}

InitUri ==
    /\ builder = NdefRecordBuilder_new
    /\ pcalls = 0
    /\ rstage = "building"
    /\ rec = NoRecord
    /\ rerr = ""
    /\ rchain = 0
    /\ rwire = <<>>
    /\ rflag = -1
    /\ rdec = NoDecode
    /\ ures = NoUriResult
    /\ msg = <<>>
    /\ mstage = "compose"
    /\ wire = <<>>
    /\ dec = NoMessageDecode
    /\ origin = "none"
    /\ nframes = 0
    /\ overflow_checks = FALSE
    /\ tag = TagBuilder_new
    /\ requested = 0
    /\ sized = "none"
    /\ tstage = "building"
    /\ tlvout = <<>>
    /\ tres = NoTagBytes
    /\ uri \in UriInputs
    /\ ustage = "input"
    /\ guessed = NoUriPayload
    /\ joined = ""
    /\ dpos = 0
    /\ drecs = <<>>

\* UriPayload::from_string
FromString ==
    /\ ustage = "input"
    /\ guessed' = UriPayload_from_string(uri)
    /\ ustage' = "guessed"
    /\ UNCHANGED <<uri, joined>>
    /\ UNCHANGED <<recVars, msgVars, tagVars, loopVars>>

\* UriPayload::full_uri
FullUri ==
    /\ ustage = "guessed"
    /\ joined' = UriPayload_full_uri(guessed)
    /\ ustage' = "joined"
    /\ UNCHANGED <<uri, guessed>>
    /\ UNCHANGED <<recVars, msgVars, tagVars, loopVars>>

NextUri ==
    \/ FromString
    \/ FullUri

SpecUri == InitUri /\ [][NextUri]_vars

-----------------------------------------------------------------------------
(* Claims on one record, checked under SpecRecord *)

\* rwire holds NdefRecord::to_buffer(rchain) of the built record rec
Encoded == rstage \in {"encoded", "decoded"} /\ rflag = -1

\* width of the fields of rec on the wire, from its flags
PlenWidth(r) == IF Contains(r.flags, SR) THEN 1 ELSE 4
IdlenWidth(r) == IF Contains(r.flags, IL) THEN 1 ELSE 0
IdWidth(r) == IF Contains(r.flags, IL) THEN Len(r.id.v) ELSE 0
HeaderWidth(r) == 1 + 1 + PlenWidth(r) + IdlenWidth(r)

\* C5: a record built with one payload() call carrying L payload bytes
\* encodes with SR set and a 1-byte payload-length field equal to L when
\* L <= 255, and with SR clear and a 4-byte little-endian payload-length
\* field equal to L when L >= 256.
C5_ShortRecordBoundary ==
    (Encoded /\ pcalls = 1) =>
        LET L == Len(builder.payload)
            rest == IdlenWidth(rec) + Len(rec.record_type) + IdWidth(rec)
                    + Len(rec.payload)
        IN  /\ L <= 255 => /\ Contains(rwire[1], SR)
                           /\ rwire[3] = L
                           /\ Len(rwire) = 2 + 1 + rest
            /\ L >= 256 => /\ ~Contains(rwire[1], SR)
                           /\ SubSeq(rwire, 3, 6) = <<L % 256, L \div 256, 0, 0>>
                           /\ Len(rwire) = 2 + 4 + rest

\* a record with one payload() call of exactly 256 bytes has been encoded
C5_Witness ==
    /\ Encoded
    /\ pcalls = 1
    /\ Len(builder.payload) = 256
    /\ ~Contains(rwire[1], SR)
    /\ Len(rwire) > 256 + 5

\* C6: NdefRecord::to_buffer(chain) of a built record is, in this order, the
\* flag byte (chain MB/ME | stored SR/IL | TNF), the record-type length, the
\* payload-length field (1 byte if SR, else 4 bytes little-endian), the
\* ID-length byte only if IL, the record type, the ID only if IL, the
\* payload, and nothing else.  (A length byte holds the length where the
\* length fits it.)
C6_WireLayout ==
    Encoded =>
        LET il == Contains(rec.flags, IL)
            sr == Contains(rec.flags, SR)
            tl == Len(rec.record_type)
            pl == Len(rec.payload)
            h  == HeaderWidth(rec)
            iw == IdWidth(rec)
        IN  /\ Len(rwire) = h + tl + iw + pl
            /\ rwire[1] = rchain + (IF sr THEN SR ELSE 0)
                          + (IF il THEN IL ELSE 0) + rec.tnf
            /\ tl <= 255 => rwire[2] = tl
            /\ sr /\ pl <= 255 => rwire[3] = pl
            /\ ~sr => SubSeq(rwire, 3, 6) = <<pl % 256, pl \div 256, 0, 0>>
            /\ il /\ iw <= 255 => rwire[h] = iw
            /\ il <=> rec.id.some
            /\ SubSeq(rwire, h + 1, h + tl) = rec.record_type
            /\ il => SubSeq(rwire, h + tl + 1, h + tl + iw) = rec.id.v
            /\ SubSeq(rwire, h + tl + iw + 1, h + tl + iw + pl) = rec.payload

\* a record with a type, an ID and a payload has been encoded as the first
\* of several
C6_Witness ==
    /\ Encoded
    /\ rchain = MB
    /\ rec.id.some
    /\ Len(rec.record_type) = 1
    /\ Len(rec.payload) = 255
    /\ rec.tnf = TNF_External

\* C7: for each of the 256 flag bytes b, followed by well-formed length
\* fields and field bytes, NdefRecord::decode succeeds and yields the TNF
\* b & 0x07; IL and the other flag bits do not influence the TNF, and the
\* ID-length byte is read exactly when IL is set (the fields come back as
\* sent and the cursor ends after the record).
C7_TnfFromLowThreeBits ==
    (rstage = "decoded" /\ rflag >= 0) =>
        /\ rdec.ok
        /\ rdec.rec.tnf = rflag % 8
        /\ rdec.rec.record_type = rec.record_type
        /\ rdec.rec.id = rec.id
        /\ rdec.rec.payload = rec.payload
        /\ rdec.pos = Len(rwire)

-----------------------------------------------------------------------------
(* Claims on one message, checked under Spec *)

\* wire holds NdefMessage::to_buffer of msg
MessageEncoded == mstage \in {"encoded", "decoded"} /\ origin = "to_buffer"

\* (tnf, record_type, id, payload) of a record
Fields(r) == <<r.tnf, r.record_type, r.id, r.payload>>

\* number of bytes a record takes on the wire, from its fields
EncodedLen(r) ==
    1 + 1 + (IF Contains(r.flags, SR) THEN 1 ELSE 4)
    + (IF r.id.some THEN 1 + Len(r.id.v) ELSE 0)
    + Len(r.record_type) + Len(r.payload)

\* 0-based offset in to_buffer's output of the flag byte of record i
RECURSIVE FlagOffset(_, _)
FlagOffset(records, i) ==
    IF i = 1 THEN 0
    ELSE FlagOffset(records, i - 1) + EncodedLen(records[i - 1])

\* the records NdefRecord::decode yields from position pos on, one after
\* the other, up to the first that fails or the end of the input
RECURSIVE FrameSeq(_, _)
FrameSeq(data, pos) ==
    LET r == Record_decode(data, pos) IN
    IF ~r.ok THEN <<>>
    ELSE IF r.pos >= Len(data) THEN <<r>>
    ELSE <<r>> \o FrameSeq(data, r.pos)

\* C1: for every message of 1..N records the builder produced (non-Empty
\* TNF, ID absent or present, payload on either side of 255/256),
\* decode(to_buffer(m)) succeeds and returns records with the same
\* (tnf, record_type, id, payload), in the same order.
C1_RoundTrip ==
    ( /\ mstage = "decoded"
      /\ origin = "to_buffer"
      /\ Len(msg) >= 1
      /\ \A i \in 1..Len(msg) : msg[i] \in BuiltRecords
      /\ \A i \in 1..Len(msg) : msg[i].tnf # TNF_Empty )
    => /\ dec.ok
       /\ Len(dec.records) = Len(msg)
       /\ \A i \in 1..Len(msg) : Fields(dec.records[i]) = Fields(msg[i])

\* C2: in the output of NdefMessage::to_buffer on N >= 1 records, whatever
\* MB/ME bits the stored records carry, the flag byte of the record at
\* index i has MB set iff i is the first and ME set iff i is the last.
C2_ChainFlagsOnEncode ==
    (MessageEncoded /\ Len(msg) >= 1) =>
        \A i \in 1..Len(msg) :
            LET b == wire[FlagOffset(msg, i) + 1]
            IN  /\ Contains(b, MB) <=> i = 1
                /\ Contains(b, ME) <=> i = Len(msg)

\* three records were encoded, the interior one with MB and ME stored on
\* it, the first one with ME stored and the last one with neither
C2_Witness ==
    /\ MessageEncoded
    /\ Len(msg) = 3
    /\ Contains(msg[1].flags, ME)
    /\ Contains(msg[2].flags, MB)
    /\ ~Contains(msg[3].flags, ME)
    /\ ~Contains(wire[FlagOffset(msg, 2) + 1], MB)

\* C3: NdefMessage::decode fails, returning no message, whenever a record
\* decoded after the first one has MB set, whatever follows that record.
C3_BeginOutOfPlaceRejected ==
    mstage = "decoded" =>
        LET F == FrameSeq(wire, 0)
        IN  (\E i \in 2..Len(F) : Contains(F[i].rec.flags, MB))
            => ~dec.ok /\ dec.records = <<>>

\* a stream whose second record has MB set and is followed by a third
\* record was decoded
C3_Witness ==
    /\ mstage = "decoded"
    /\ ~dec.ok
    /\ LET F == FrameSeq(wire, 0)
       IN  /\ Len(F) = 3
           /\ Contains(F[1].rec.flags, MB)
           /\ Contains(F[2].rec.flags, MB)
           /\ Contains(F[3].rec.flags, ME)

\* C4: NdefMessage::decode fails, returning no message, whenever the record
\* whose decoding brings the cursor to the end of the input does not have ME
\* set; every message it returns has ME set on its last record.
C4_EndRequiredAtExhaustion ==
    mstage = "decoded" =>
        LET F == FrameSeq(wire, 0)
        IN  /\ ( /\ Len(F) >= 1
                 /\ F[Len(F)].pos >= Len(wire)
                 /\ ~Contains(F[Len(F)].rec.flags, ME) )
               => ~dec.ok /\ dec.records = <<>>
            /\ dec.ok => /\ Len(dec.records) >= 1
                         /\ Contains(dec.records[Len(dec.records)].flags, ME)

\* a stream of two records, MB on the first only and ME on neither, was
\* decoded to its end and rejected
C4_Witness ==
    /\ mstage = "decoded"
    /\ ~dec.ok
    /\ dec.err = "record ME flag is not set"
    /\ LET F == FrameSeq(wire, 0)
       IN  /\ Len(F) = 2
           /\ F[2].pos = Len(wire)
           /\ Contains(F[1].rec.flags, MB)
           /\ ~Contains(F[2].rec.flags, MB)

-----------------------------------------------------------------------------
(* Claims on one tag, checked under SpecTag *)

\* total number of bytes of the serialized entries
RECURSIVE TotalLen(_)
TotalLen(chunks) ==
    IF chunks = <<>> THEN 0 ELSE Len(Head(chunks)) + TotalLen(Tail(chunks))

\* C8: NFT2Tag::to_bytes returns the 'Invalid memory size' error whenever
\* the concatenated serialized TLV bytes are longer than capacity_in_bytes()
\* (size byte x 8) and succeeds when they are not longer, for every content
\* length, those of 65536 bytes or more included: a successful result never
\* carries more TLV bytes than the declared capacity.
C8_ContentOverCapacityRejected ==
    tstage = "done" =>
        LET content == TotalLen(tlvout)
            capacity == 8 * tag.memory_size
        IN  /\ content > capacity =>
                  ~tres.ok /\ tres.err = "Invalid memory size"
            /\ content <= capacity =>
                  tres.ok /\ Len(tres.bytes) = 4 + content
            /\ tres.ok => Len(tres.bytes) - 4 <= capacity

\* C9: a tag whose declared capacity is above 2048 bytes makes
\* NFT2Tag::to_bytes fail with the 'Invalid memory size' error whatever the
\* TLV content, empty content included.
C9_CapacityCeiling ==
    (tstage = "done" /\ requested > CapacityCeiling) =>
        ~tres.ok /\ tres.err = "Invalid memory size"

\* the bytes the TLV format prescribes for an entry
TlvExpected(e) ==
    IF e.tag \in {TlvTag_NULL, TlvTag_Terminator} THEN <<e.tag>>
    ELSE LET n == Len(e.value.v) IN
         IF n <= 254 THEN <<e.tag, n>> \o e.value.v
         ELSE <<e.tag, 255, n % 256, (n \div 256) % 256>> \o e.value.v

\* C10: TlvValue::to_bytes emits the tag byte exactly once; nothing follows
\* for a NULL or Terminator entry; for a value of length n it emits one
\* length byte n and the value when 0 <= n <= 254 (the single byte 0x00 for
\* a present but empty value), and 0xFF, n as a 2-byte little-endian
\* integer (the low 16 bits of n) and the value when n >= 255; the value
\* bytes are copied unchanged.
C10_TlvEntryEncoding ==
    tstage = "done" =>
        /\ Len(tlvout) = Len(tag.tlvs)
        /\ \A i \in 1..Len(tlvout) : tlvout[i] = TlvExpected(tag.tlvs[i])

\* a tag holding an NDEF message of 255 bytes, in the 3-byte length form,
\* and a Terminator was serialized
C10_Witness ==
    /\ tstage = "done"
    /\ Len(tlvout) = 2
    /\ Len(tlvout[1]) = 4 + 255
    /\ SubSeq(tlvout[1], 1, 4) = <<TlvTag_NDEFMessage, 255, 255, 0>>
    /\ tlvout[2] = <<TlvTag_Terminator>>

-----------------------------------------------------------------------------
(* Claims on the builder, checked under SpecRecord *)

\* build() has returned for the builder as it stands
BuildReturned ==
    rstage \in {"failed", "built", "encoded", "decoded"} /\ rflag = -1

\* C11: NdefRecordBuilder::build returns an error whenever the record type
\* or the ID is longer than 255 bytes, so no record whose type length or ID
\* length does not fit the 1-byte wire field is built and encoded.
C11_LengthValidatedAtBuild ==
    BuildReturned =>
        /\ ( \/ Len(builder.record_type) > 255
             \/ (builder.id.some /\ Len(builder.id.v) > 255) )
           => rstage = "failed"
        /\ Encoded => /\ Len(rec.record_type) <= 255
                      /\ rec.id.some => Len(rec.id.v) <= 255

\* C12: build() with TNF Empty (the default included) returns the 'Invalid
\* empty record' error if the record type is non-empty, the payload is
\* non-empty or an ID is set, and otherwise returns a record whose
\* record_type is empty, id is None and payload is empty.
C12_EmptyTnfValidated ==
    (BuildReturned /\ builder.tnf = TNF_Empty) =>
        IF \/ Len(builder.record_type) # 0
           \/ Len(builder.payload) # 0
           \/ builder.id.some
        THEN rstage = "failed" /\ rerr = "Invalid empty record"
        ELSE /\ rstage # "failed"
             /\ rerr = ""
             /\ rec.tnf = TNF_Empty
             /\ rec.record_type = <<>>
             /\ rec.id = None
             /\ rec.payload = <<>>

\* build() has rejected an Empty-TNF builder on which only an ID was set,
\* after payload() was called with an empty type and an empty payload
C12_Witness ==
    /\ rstage = "failed"
    /\ rerr = "Invalid empty record"
    /\ builder.tnf = TNF_Empty
    /\ pcalls >= 1
    /\ builder.id.some
    /\ builder.record_type = <<>>
    /\ builder.payload = <<>>

\* build() has returned Ok(rec) for the builder as it stands
BuildSucceeded ==
    rstage \in {"built", "encoded", "decoded", "converted"} /\ rflag = -1

\* C16: after every sequence of tnf, id and payload calls (payload never
\* called, or called more than once with lengths on either side of 256,
\* included) followed by a successful build(), the record has SR set if and
\* only if its final payload length is < 256, so the encoded payload-length
\* field has the width that holds the payload written.
C16_ShortRecordAfterAnySequence ==
    BuildSucceeded =>
        /\ Contains(rec.flags, SR) <=> Len(rec.payload) < 256
        /\ Encoded =>
              LET pl == Len(rec.payload) IN
              IF pl < 256
              THEN Contains(rwire[1], SR) /\ rwire[3] = pl
              ELSE /\ ~Contains(rwire[1], SR)
                   /\ SubSeq(rwire, 3, 6) = <<pl % 256, pl \div 256, 0, 0>>

\* id() is Some with at least one byte exactly when the flags contain IL
IdMatchesIL(r) ==
    /\ r.id.some => Len(r.id.v) >= 1
    /\ r.id.some <=> Contains(r.flags, IL)

\* C19: for every record build() returns after any sequence of builder
\* calls (id() with an empty vector included) and every record a successful
\* decode returns, id() is Some with at least one byte if and only if the
\* flags contain IL; to_buffer writes the ID-length byte (and the ID)
\* exactly when the IL bit is set in the flag byte it emits.
C19_IdPresenceMatchesIL ==
    /\ BuildSucceeded => IdMatchesIL(rec)
    /\ (rstage = "decoded" /\ rdec.ok) => IdMatchesIL(rdec.rec)
    /\ Encoded =>
          LET il == Contains(rwire[1], IL)
              fixed == 2 + PlenWidth(rec) + Len(rec.record_type)
                       + Len(rec.payload)
          IN  /\ il <=> rec.id.some
              /\ Len(rwire) = fixed + (IF il THEN 1 + Len(rec.id.v) ELSE 0)
              /\ (il /\ Len(rec.id.v) <= 255) =>
                     rwire[2 + PlenWidth(rec) + 1] = Len(rec.id.v)

\* a record built with a one-byte ID was encoded with IL set and the
\* ID-length byte 1
C19_Witness ==
    /\ rstage = "encoded"
    /\ rflag = -1
    /\ rec.id = Some(Bytes(16, 1))
    /\ Contains(rwire[1], IL)
    /\ rwire[2 + PlenWidth(rec) + 1] = 1

-----------------------------------------------------------------------------
(* Claims on the message decoder, checked under Spec *)

\* C13 as stated: NdefMessage::decode of a zero-length buffer returns Ok
\* with an empty record list, so the empty buffer to_buffer produces for a
\* message with no records decodes back to an empty message.
C13_EmptyInputDecodesOk ==
    (mstage = "decoded" /\ wire = <<>>) => dec.ok /\ dec.records = <<>>

\* C13 amended: NdefMessage::to_buffer of a message with no records returns
\* an empty buffer, and NdefMessage::decode of a zero-length buffer attempts
\* one record decode, which fails on the flag byte, and returns that read
\* error and no message.
C13_EmptyInputRejected ==
    /\ (MessageEncoded /\ msg = <<>>) => wire = <<>>
    /\ (mstage = "decoded" /\ wire = <<>>) =>
           /\ ~dec.ok
           /\ dec.err = "read error"
           /\ dec.records = <<>>

\* the empty buffer to_buffer returned for a message with no records was
\* decoded
C13_Witness ==
    /\ mstage = "decoded"
    /\ origin = "to_buffer"
    /\ msg = <<>>
    /\ wire = <<>>
    /\ dec.err = "read error"

\* C17: every message NdefMessage::decode returns has MB set on the record
\* at index 0; an input whose first record has MB clear is rejected.
C17_BeginRequiredOnFirst ==
    mstage = "decoded" =>
        LET first == Record_decode(wire, 0)
        IN  /\ dec.ok => /\ Len(dec.records) >= 1
                         /\ Contains(dec.records[1].flags, MB)
            /\ (first.ok /\ ~Contains(first.rec.flags, MB)) => ~dec.ok

-----------------------------------------------------------------------------
(* Claims on the URI payload, checked under SpecUri *)

\* the entries of the table whose prefix the string starts with
Matching(u) ==
    {i \in 1..Len(URI_ABBREVIATIONS) :
        starts_with(u, URI_ABBREVIATIONS[i].prefix)}

\* C14: for every URI string, the entry guess_abbrev chooses is the longest
\* prefix in the table that the URI starts with (code 0x00 with the whole
\* URI when none matches), and the residual string is the URI with exactly
\* that prefix removed.
C14_LongestPrefixChosen ==
    ustage \in {"guessed", "joined"} =>
        LET chosen == guessed.abbrev IN
        /\ \E i \in Matching(uri) : URI_ABBREVIATIONS[i] = chosen
        /\ \A i \in Matching(uri) :
               Len(URI_ABBREVIATIONS[i].prefix) <= Len(chosen.prefix)
        /\ guessed.uri = StrFrom(uri, Len(chosen.prefix))

\* C15: for every NdefRecord, UriPayload::try_from returns a value and never
\* aborts: Err(InvalidTnf) when the TNF is not WellKnown, otherwise
\* Err(InvalidRecordType) when the record type is not "U", otherwise Ok or
\* Err(InvalidEncoding), a WellKnown "U" record with a zero-byte payload
\* included.
C15_TryFromAlwaysReturns ==
    rstage = "converted" =>
        /\ ~ures.panic
        /\ IF rec.tnf # TNF_WellKnown THEN ~ures.ok /\ ures.err = "InvalidTnf"
           ELSE IF rec.record_type # RTD_URI
           THEN ~ures.ok /\ ures.err = "InvalidRecordType"
           ELSE ures.ok \/ ures.err = "InvalidEncoding"

-----------------------------------------------------------------------------
(* Claims on the tag builder, checked under SpecTag *)

\* C18: for every byte count b from 1 to 2048 given to
\* TagBuilder::size_in_bytes, the stored size byte is (b-1)/8 + 1 without
\* wrapping in 8 bits, so capacity_in_bytes() is the smallest multiple of 8
\* that is >= b; for b = 0 the capacity stored is not smaller than
\* requested.
C18_ByteCountRounding ==
    sized = "size_in_bytes" =>
        LET cap == capacity_in_bytes(TagBuilder_build(tag)) IN
        /\ (1 <= requested /\ requested <= 2048) =>
              /\ tstage # "panicked"
              /\ tag.memory_size = (requested - 1) \div 8 + 1
              /\ cap % 8 = 0
              /\ cap >= requested
              /\ cap - 8 < requested
        /\ (requested = 0 /\ tstage # "panicked") => cap >= requested

-----------------------------------------------------------------------------
(* Claims on the decode loop, checked under SpecLoop *)

\* an iteration that does not return an error advances the cursor by at
\* least 3 bytes and by exactly the encoded size of the record it decoded,
\* and the call returns in the iteration that brings the cursor to the end
\* of the input
IterationAdvances ==
    mstage = "decoding" =>
        \/ mstage' = "decoded" /\ ~dec'.ok
        \/ /\ Len(drecs') = Len(drecs) + 1
           /\ dpos' >= dpos + 3
           /\ dpos' - dpos = Len(Record_to_buffer(drecs'[Len(drecs')], 0))
           /\ dpos' <= Len(wire)
           /\ (dpos' >= Len(wire)) <=> (mstage' = "decoded")

\* at most len/3 records are decoded and a successful result holds at least
\* one record
DecodeBounded ==
    mstage \in {"decoding", "decoded"} =>
        /\ 3 * Len(drecs) <= Len(wire)
        /\ 3 * Len(drecs) <= dpos
        /\ (mstage = "decoded" /\ dec.ok) =>
               Len(dec.records) >= 1 /\ dec.records = drecs

\* C20: for every input buffer NdefMessage::decode eventually returns Ok or
\* Err; each loop iteration either returns an error or advances the cursor
\* by at least 3 bytes and by exactly the decoded record's encoded size, the
\* loop exits as soon as the cursor reaches the input length, at most len/3
\* records are decoded and a successful result holds at least one record.
C20_DecodeTerminates ==
    /\ []DecodeBounded
    /\ [][IterationAdvances]_vars
    /\ (mstage = "decoding") ~> (mstage = "decoded")

\* a stream of three records was decoded to its end in three iterations
C20_Witness ==
    /\ mstage = "decoded"
    /\ dec.ok
    /\ Len(drecs) = 3
    /\ dpos = Len(wire)
    /\ origin = "peer"

=============================================================================
